---- MODULE Spec2Model ----
(***************************************************************************)
(* Unisolation tracker (src/app/src/App.tsx): the step catalog, the role   *)
(* gate, the tracker state held by the App component, its bootstrap from   *)
(* the location and the local store, the write-through persistence effect  *)
(* and the snapshot codec behind the share link.                           *)
(*                                                                         *)
(* Text is modelled as a sequence of UTF-16 code units (naturals), as a    *)
(* JavaScript string is.  Identifiers of the program (property names,      *)
(* step ids, role names, labels) are ASCII; Sym gives each its spelling,   *)
(* shortened to a unique ASCII abbreviation so that serialized states stay *)
(* short.  An ISO timestamp is the single ASCII digit of the clock value.  *)
(***************************************************************************)
EXTENDS Integers, Sequences, FiniteSets, TLC

(***************************************************************************)
(* Step catalog and roles                                                  *)
(***************************************************************************)
STEPS ==
  << [id |-> "started",   label |-> "Unisolation started"],
     [id |-> "validated", label |-> "Inputs validated"],
     [id |-> "it_sent",   label |-> "IT email sent"],
     [id |-> "it_ok",     label |-> "IT approved"],
     [id |-> "hob_sent",  label |-> "HOB email sent"],
     [id |-> "hob_ok",    label |-> "HOB approved"],
     [id |-> "unisolate", label |-> "Unisolation requested"],
     [id |-> "done",      label |-> "Completed"] >>

StepId == { STEPS[k].id : k \in 1..Len(STEPS) }

Role == {"operator", "it", "hob"}

DEFAULT_STEP == "started"

\* The value standing for JavaScript's null returned by nextFor.
NoStep == "null"

(***************************************************************************)
(* Text                                                                    *)
(***************************************************************************)
\* The ASCII spelling of an identifier of the program, abbreviated.
Sym(name) ==
  CASE name = "incidentId"  -> <<105, 73>>        \* iI
    [] name = "machineId"   -> <<109, 73>>        \* mI
    [] name = "machineName" -> <<109, 78>>        \* mN
    [] name = "upn"         -> <<117>>            \* u
    [] name = "bu"          -> <<98>>             \* b
    [] name = "active"      -> <<97>>             \* a
    [] name = "completed"   -> <<99>>             \* c
    [] name = "log"         -> <<108>>            \* l
    [] name = "readonly"    -> <<114>>            \* r
    [] name = "ts"          -> <<116>>            \* t
    [] name = "who"         -> <<119>>            \* w
    [] name = "what"        -> <<104>>            \* h
    [] name = "operator"    -> <<111, 112>>       \* op
    [] name = "it"          -> <<105, 116>>       \* it
    [] name = "hob"         -> <<104, 111>>       \* ho
    [] name = "started"     -> <<48>>             \* 0
    [] name = "validated"   -> <<49>>             \* 1
    [] name = "it_sent"     -> <<50>>             \* 2
    [] name = "it_ok"       -> <<51>>             \* 3
    [] name = "hob_sent"    -> <<52>>             \* 4
    [] name = "hob_ok"      -> <<53>>             \* 5
    [] name = "unisolate"   -> <<54>>             \* 6
    [] name = "done"        -> <<55>>             \* 7
    [] name = "Unisolation started"   -> <<85, 115>>   \* Us
    [] name = "Inputs validated"      -> <<73, 118>>   \* Iv
    [] name = "IT email sent"         -> <<73, 115>>   \* Is
    [] name = "IT approved"           -> <<73, 97>>    \* Ia
    [] name = "HOB email sent"        -> <<72, 115>>   \* Hs
    [] name = "HOB approved"          -> <<72, 97>>    \* Ha
    [] name = "Unisolation requested" -> <<85, 114>>   \* Ur
    [] name = "Completed"             -> <<67>>        \* C
    [] name = "Tracker created"       -> <<84, 99>>    \* Tc
    [] name = "Tracker reset"         -> <<84, 114>>   \* Tr
    [] name = "unisov2:"              -> <<118, 50, 58>>  \* v2:
    [] name = " advanced -> "         -> <<32, 8594, 32>> \* the arrow is U+2192

\* new Date(t).toISOString(): an ASCII string, here the digit of the clock.
toISOString(t) == <<48 + t>>

IsHighSurrogate(c) == c >= 55296 /\ c <= 56319
IsLowSurrogate(c)  == c >= 56320 /\ c <= 57343

\* Concatenation of ss[lo..hi], by halves.
RECURSIVE Concat(_, _, _)
Concat(ss, lo, hi) ==
  IF lo > hi THEN <<>>
  ELSE IF lo = hi THEN ss[lo]
  ELSE LET mid == (lo + hi) \div 2
       IN  Concat(ss, lo, mid) \o Concat(ss, mid + 1, hi)

\* A computation that may throw: ok is FALSE when it threw.
Threw == [ok |-> FALSE, v |-> <<>>]
Returned(v) == [ok |-> TRUE, v |-> v]

(***************************************************************************)
(* UTF-8: unescape(encodeURIComponent(text)) is the binary string of the   *)
(* UTF-8 bytes of text, and decodeURIComponent(escape(bytes)) is its       *)
(* inverse; both throw URIError on malformed input.                        *)
(***************************************************************************)
Utf8OfCodePoint(cp) ==
  IF cp < 128 THEN <<cp>>
  ELSE IF cp < 2048 THEN <<192 + (cp \div 64), 128 + (cp % 64)>>
  ELSE IF cp < 65536
       THEN <<224 + (cp \div 4096), 128 + ((cp \div 64) % 64), 128 + (cp % 64)>>
  ELSE <<240 + (cp \div 262144), 128 + ((cp \div 4096) % 64),
         128 + ((cp \div 64) % 64), 128 + (cp % 64)>>

\* unescape(encodeURIComponent(s)); a lone surrogate makes encodeURIComponent throw.
Utf8Bytes(s) ==
  LET n == Len(s)
      \* A low surrogate at k closes a pair iff the unit before it is a high
      \* surrogate that opens one; a high surrogate always opens (it cannot
      \* itself be the second half of a pair).
      closes(k) == IsLowSurrogate(s[k]) /\ k > 1 /\ IsHighSurrogate(s[k - 1])
      opens(k)  == IsHighSurrogate(s[k]) /\ k < n /\ IsLowSurrogate(s[k + 1])
      lone(k)   == \/ IsHighSurrogate(s[k]) /\ ~ opens(k)
                   \/ IsLowSurrogate(s[k]) /\ ~ closes(k)
      part(k)   == IF opens(k)
                   THEN Utf8OfCodePoint(65536 + (s[k] - 55296) * 1024
                                              + (s[k + 1] - 56320))
                   ELSE IF closes(k) THEN <<>>
                   ELSE Utf8OfCodePoint(s[k])
  IN  IF \E k \in 1..n : lone(k) THEN Threw
      ELSE Returned(Concat([k \in 1..n |-> part(k)], 1, n))

\* decodeURIComponent(escape(b)): b is a binary string (units 0..255).
Utf8Text(b) ==
  LET n == Len(b)
      cont(k) == b[k] >= 128 /\ b[k] < 192
      size(k) == IF b[k] < 128 THEN 1
                 ELSE IF b[k] >= 194 /\ b[k] < 224 THEN 2
                 ELSE IF b[k] >= 224 /\ b[k] < 240 THEN 3
                 ELSE IF b[k] >= 240 /\ b[k] < 245 THEN 4
                 ELSE 0
      cp(k) == CASE size(k) = 1 -> b[k]
                 [] size(k) = 2 -> (b[k] - 192) * 64 + (b[k + 1] - 128)
                 [] size(k) = 3 -> (b[k] - 224) * 4096 + (b[k + 1] - 128) * 64
                                   + (b[k + 2] - 128)
                 [] size(k) = 4 -> (b[k] - 240) * 262144 + (b[k + 1] - 128) * 4096
                                   + (b[k + 2] - 128) * 64 + (b[k + 3] - 128)
      wellFormed(k) ==
        /\ size(k) > 0
        /\ k + size(k) - 1 <= n
        /\ \A j \in (k + 1)..(k + size(k) - 1) : cont(j)
        /\ (k + size(k) <= n => ~ cont(k + size(k)))
        /\ (size(k) = 3 => cp(k) >= 2048 /\ ~ (cp(k) >= 55296 /\ cp(k) <= 57343))
        /\ (size(k) = 4 => cp(k) >= 65536 /\ cp(k) <= 1114111)
      units(k) == IF cont(k) THEN <<>>
                  ELSE IF cp(k) < 65536 THEN <<cp(k)>>
                  ELSE <<55296 + ((cp(k) - 65536) \div 1024),
                         56320 + ((cp(k) - 65536) % 1024)>>
  IN  IF \/ \E k \in 1..n : b[k] > 255
         \/ (n > 0 /\ cont(1))
         \/ \E k \in 1..n : ~ cont(k) /\ ~ wellFormed(k)
      THEN Threw
      ELSE Returned(Concat([k \in 1..n |-> units(k)], 1, n))

(***************************************************************************)
(* Base64: btoa and atob                                                   *)
(***************************************************************************)
B64Char(v) ==
  IF v < 26 THEN 65 + v
  ELSE IF v < 52 THEN 97 + (v - 26)
  ELSE IF v < 62 THEN 48 + (v - 52)
  ELSE IF v = 62 THEN 43 ELSE 47

\* -1 for a unit outside the alphabet.
B64Value(c) ==
  IF c >= 65 /\ c <= 90 THEN c - 65
  ELSE IF c >= 97 /\ c <= 122 THEN c - 97 + 26
  ELSE IF c >= 48 /\ c <= 57 THEN c - 48 + 52
  ELSE IF c = 43 THEN 62
  ELSE IF c = 47 THEN 63 ELSE -1

\* btoa(b): throws InvalidCharacterError when a unit is above 255.
btoa(b) ==
  LET n == Len(b)
      at(k) == IF k <= n THEN b[k] ELSE 0
      out(k) ==
        LET g == (k - 1) \div 4
            p == (k - 1) % 4
            b0 == at(3 * g + 1)
            b1 == at(3 * g + 2)
            b2 == at(3 * g + 3)
        IN  CASE p = 0 -> B64Char(b0 \div 4)
              [] p = 1 -> B64Char((b0 % 4) * 16 + (b1 \div 16))
              [] p = 2 -> IF 3 * g + 2 > n THEN 61
                          ELSE B64Char((b1 % 16) * 4 + (b2 \div 64))
              [] p = 3 -> IF 3 * g + 3 > n THEN 61 ELSE B64Char(b2 % 64)
  IN  IF \E k \in 1..n : b[k] > 255 THEN Threw
      ELSE Returned([k \in 1..(4 * ((n + 2) \div 3)) |-> out(k)])

IsAsciiWhitespace(c) == c \in {9, 10, 12, 13, 32}

\* atob(t): the forgiving-base64 decode; throws on a malformed token.
atob(t) ==
  LET d0 == SelectSeq(t, LAMBDA c : ~ IsAsciiWhitespace(c))
      n0 == Len(d0)
      pad == IF n0 % 4 = 0 /\ n0 > 0 /\ d0[n0] = 61
             THEN IF n0 > 1 /\ d0[n0 - 1] = 61 THEN 2 ELSE 1
             ELSE 0
      d == SubSeq(d0, 1, n0 - pad)
      n == Len(d)
      val(k) == IF k <= n THEN B64Value(d[k]) ELSE 0
      out(k) ==
        LET g == (k - 1) \div 3
            p == (k - 1) % 3
            s0 == val(4 * g + 1)
            s1 == val(4 * g + 2)
            s2 == val(4 * g + 3)
            s3 == val(4 * g + 4)
        IN  CASE p = 0 -> s0 * 4 + (s1 \div 16)
              [] p = 1 -> (s1 % 16) * 16 + (s2 \div 4)
              [] p = 2 -> (s2 % 4) * 64 + s3
  IN  IF n % 4 = 1 \/ \E k \in 1..n : B64Value(d[k]) < 0 THEN Threw
      ELSE Returned([k \in 1..((n * 6) \div 8) |-> out(k)])

(***************************************************************************)
(* JSON: values, JSON.stringify and JSON.parse                             *)
(***************************************************************************)
JNull      == [t |-> "null"]
JUndefined == [t |-> "undefined"]
JBool(b)   == [t |-> "boolean", b |-> b]
JNum(n)    == [t |-> "number", n |-> n]
JStr(s)    == [t |-> "string", s |-> s]
JArr(a)    == [t |-> "array", a |-> a]
\* An object is its properties in insertion order, each [k |-> text, v |-> value].
JObj(o)    == [t |-> "object", o |-> o]

Prop(k, v) == [k |-> k, v |-> v]

HasProp(o, k) == \E j \in 1..Len(o) : o[j].k = k

\* value.key of JavaScript, for a value that is neither null nor undefined.
Get(value, k) ==
  IF value.t = "object" /\ HasProp(value.o, k)
  THEN value.o[CHOOSE j \in 1..Len(value.o) : value.o[j].k = k].v
  ELSE JUndefined

\* o with property k set to v (an existing property keeps its place).
Put(o, k, v) ==
  IF HasProp(o, k)
  THEN [j \in 1..Len(o) |-> IF o[j].k = k THEN Prop(k, v) ELSE o[j]]
  ELSE Append(o, Prop(k, v))

\* ToBoolean
Truthy(value) ==
  CASE value.t = "null"      -> FALSE
    [] value.t = "undefined" -> FALSE
    [] value.t = "boolean"   -> value.b
    [] value.t = "number"    -> value.n # 0
    [] value.t = "string"    -> value.s # <<>>
    [] OTHER                 -> TRUE

HexDigit(d) == IF d < 10 THEN 48 + d ELSE 97 + (d - 10)

\* -1 for a unit that is no hexadecimal digit.
HexValue(c) ==
  IF c >= 48 /\ c <= 57 THEN c - 48
  ELSE IF c >= 97 /\ c <= 102 THEN c - 97 + 10
  ELSE IF c >= 65 /\ c <= 70 THEN c - 65 + 10 ELSE -1

UnicodeEscape(c) ==
  <<92, 117, HexDigit(c \div 4096), HexDigit((c \div 256) % 16),
    HexDigit((c \div 16) % 16), HexDigit(c % 16)>>

\* QuoteJSONString
Quote(s) ==
  LET n == Len(s)
      paired(k) ==
        \/ IsHighSurrogate(s[k]) /\ k < n /\ IsLowSurrogate(s[k + 1])
        \/ IsLowSurrogate(s[k]) /\ k > 1 /\ IsHighSurrogate(s[k - 1])
      esc(k) ==
        LET c == s[k]
        IN  CASE c = 34 -> <<92, 34>>
              [] c = 92 -> <<92, 92>>
              [] c = 8  -> <<92, 98>>
              [] c = 9  -> <<92, 116>>
              [] c = 10 -> <<92, 110>>
              [] c = 12 -> <<92, 102>>
              [] c = 13 -> <<92, 114>>
              [] c < 32 /\ c \notin {8, 9, 10, 12, 13} -> UnicodeEscape(c)
              [] (IsHighSurrogate(c) \/ IsLowSurrogate(c)) /\ ~ paired(k)
                   -> UnicodeEscape(c)
              [] OTHER -> <<c>>
  IN  <<34>> \o Concat([k \in 1..n |-> esc(k)], 1, n) \o <<34>>

\* JSON.stringify(value), for a value that is not undefined.
RECURSIVE JSON_stringify(_)
JSON_stringify(value) ==
  CASE value.t = "null"    -> <<110, 117, 108, 108>>
    [] value.t = "boolean" -> IF value.b THEN <<116, 114, 117, 101>>
                              ELSE <<102, 97, 108, 115, 101>>
    [] value.t = "number"  -> <<48 + value.n>>
    [] value.t = "string"  -> Quote(value.s)
    [] value.t = "array"   ->
         LET n == Len(value.a)
             item(k) == (IF k > 1 THEN <<44>> ELSE <<>>)
                        \o (IF value.a[k].t = "undefined"
                            THEN <<110, 117, 108, 108>>
                            ELSE JSON_stringify(value.a[k]))
         IN  <<91>> \o Concat([k \in 1..n |-> item(k)], 1, n) \o <<93>>
    [] value.t = "object"  ->
         LET kept == SelectSeq(value.o, LAMBDA p : p.v.t # "undefined")
             n == Len(kept)
             item(k) == (IF k > 1 THEN <<44>> ELSE <<>>)
                        \o Quote(kept[k].k) \o <<58>> \o JSON_stringify(kept[k].v)
         IN  <<123>> \o Concat([k \in 1..n |-> item(k)], 1, n) \o <<125>>

\* A parse result: ok, the value, and the index after it.
Parsed(v, i) == [ok |-> TRUE, v |-> v, i |-> i]
Unparsed == [ok |-> FALSE, v |-> JUndefined, i |-> 0]

RECURSIVE SkipWs(_, _)
SkipWs(t, i) ==
  IF i <= Len(t) /\ t[i] \in {9, 10, 13, 32} THEN SkipWs(t, i + 1) ELSE i

StartsWith(t, i, word) ==
  /\ i + Len(word) - 1 <= Len(t)
  /\ \A k \in 1..Len(word) : t[i + k - 1] = word[k]

\* The characters of a string literal from index i (after the opening quote).
RECURSIVE ParseChars(_, _, _)
ParseChars(t, i, acc) ==
  IF i > Len(t) THEN Unparsed
  ELSE IF t[i] = 34 THEN Parsed(JStr(acc), i + 1)
  ELSE IF t[i] < 32 THEN Unparsed
  ELSE IF t[i] # 92 THEN ParseChars(t, i + 1, Append(acc, t[i]))
  ELSE IF i + 1 > Len(t) THEN Unparsed
  ELSE LET e == t[i + 1]
       IN  CASE e \in {34, 92, 47} -> ParseChars(t, i + 2, Append(acc, e))
             [] e = 98  -> ParseChars(t, i + 2, Append(acc, 8))
             [] e = 102 -> ParseChars(t, i + 2, Append(acc, 12))
             [] e = 110 -> ParseChars(t, i + 2, Append(acc, 10))
             [] e = 114 -> ParseChars(t, i + 2, Append(acc, 13))
             [] e = 116 -> ParseChars(t, i + 2, Append(acc, 9))
             [] e = 117 ->
                  IF /\ i + 5 <= Len(t)
                     /\ \A k \in 2..5 : HexValue(t[i + k]) >= 0
                  THEN ParseChars(t, i + 6,
                         Append(acc, HexValue(t[i + 2]) * 4096
                                     + HexValue(t[i + 3]) * 256
                                     + HexValue(t[i + 4]) * 16
                                     + HexValue(t[i + 5])))
                  ELSE Unparsed
             [] OTHER -> Unparsed

\* The digits of an integer literal from index i.  Fractions and exponents
\* are not modelled: no text of the model holds one.
RECURSIVE ParseDigits(_, _, _)
ParseDigits(t, i, acc) ==
  IF i <= Len(t) /\ t[i] >= 48 /\ t[i] <= 57
  THEN ParseDigits(t, i + 1, acc * 10 + (t[i] - 48))
  ELSE IF i <= Len(t) /\ t[i] \in {46, 69, 101} THEN Unparsed
  ELSE Parsed(JNum(acc), i)

RECURSIVE ParseValue(_, _)
RECURSIVE ParseElements(_, _, _)
RECURSIVE ParseMembers(_, _, _)

\* The value that starts at index i, the first index past the white space.
ParseValueAt(t, i) ==
  IF i > Len(t) THEN Unparsed
  ELSE CASE t[i] = 123 -> ParseMembers(t, SkipWs(t, i + 1), <<>>)
         [] t[i] = 91 -> ParseElements(t, SkipWs(t, i + 1), <<>>)
         [] t[i] = 34 -> ParseChars(t, i + 1, <<>>)
         [] t[i] = 110 -> IF StartsWith(t, i, <<110, 117, 108, 108>>)
                          THEN Parsed(JNull, i + 4) ELSE Unparsed
         [] t[i] = 116 -> IF StartsWith(t, i, <<116, 114, 117, 101>>)
                          THEN Parsed(JBool(TRUE), i + 4) ELSE Unparsed
         [] t[i] = 102 -> IF StartsWith(t, i, <<102, 97, 108, 115, 101>>)
                          THEN Parsed(JBool(FALSE), i + 5) ELSE Unparsed
         [] t[i] = 48 -> IF i + 1 <= Len(t) /\ t[i + 1] >= 48 /\ t[i + 1] <= 57
                         THEN Unparsed ELSE ParseDigits(t, i, 0)
         [] t[i] >= 49 /\ t[i] <= 57 -> ParseDigits(t, i, 0)
         [] OTHER -> Unparsed

ParseValue(t, i0) == ParseValueAt(t, SkipWs(t, i0))

\* After the elements acc, at index j past the white space: "," or "]".
ElementsNext(t, j, acc) ==
  IF j > Len(t) THEN Unparsed
  ELSE IF t[j] = 44 THEN ParseElements(t, SkipWs(t, j + 1), acc)
  ELSE IF t[j] = 93 THEN Parsed(JArr(acc), j + 1)
  ELSE Unparsed

\* After the element e was parsed.
ElementsAfter(t, e, acc) ==
  IF ~ e.ok THEN Unparsed
  ELSE ElementsNext(t, SkipWs(t, e.i), Append(acc, e.v))

\* The elements of an array from index i (past the white space), after acc.
ParseElements(t, i, acc) ==
  IF acc = <<>> /\ i <= Len(t) /\ t[i] = 93 THEN Parsed(JArr(<<>>), i + 1)
  ELSE ElementsAfter(t, ParseValue(t, i), acc)

\* After the members acc, at index j past the white space: "," or "}".
MembersNext(t, j, acc) ==
  IF j > Len(t) THEN Unparsed
  ELSE IF t[j] = 44 THEN ParseMembers(t, SkipWs(t, j + 1), acc)
  ELSE IF t[j] = 125 THEN Parsed(JObj(acc), j + 1)
  ELSE Unparsed

\* After the value val of the member named key was parsed.
MembersAfterValue(t, key, val, acc) ==
  IF ~ val.ok THEN Unparsed
  ELSE MembersNext(t, SkipWs(t, val.i), Put(acc, key, val.v))

\* After the member name key was parsed, at index c past the white space: ":".
MembersAfterKey(t, key, c, acc) ==
  IF c <= Len(t) /\ t[c] = 58
  THEN MembersAfterValue(t, key, ParseValue(t, c + 1), acc)
  ELSE Unparsed

MembersAfterName(t, name, acc) ==
  IF ~ name.ok THEN Unparsed
  ELSE MembersAfterKey(t, name.v.s, SkipWs(t, name.i), acc)

\* The members of an object from index i (past the white space), after acc.
ParseMembers(t, i, acc) ==
  IF i > Len(t) THEN Unparsed
  ELSE IF acc = <<>> /\ t[i] = 125 THEN Parsed(JObj(<<>>), i + 1)
  ELSE IF t[i] = 34 THEN MembersAfterName(t, ParseChars(t, i + 1, <<>>), acc)
  ELSE Unparsed

\* The whole text must be one value.
WholeValue(t, r) ==
  IF r.ok /\ SkipWs(t, r.i) = Len(t) + 1 THEN Returned(r.v) ELSE Threw

\* JSON.parse(text): throws SyntaxError on text that is no JSON value.
JSON_parse(t) == WholeValue(t, ParseValue(t, 1))

(***************************************************************************)
(* Bounds and inputs                                                       *)
(***************************************************************************)
\* The clock of a behaviour stays below MaxClock: every event has its instant.
MaxClock == 4

\* The same for the behaviours of the flow, long enough to reach the last step.
MaxFlowClock == 8

\* Values typed into an identifying field: empty and "a".
IdTexts == { <<>>, <<97>> }

\* Values typed into a descriptive field: empty and "é→" (non-ASCII).
ContextTexts == { <<>>, <<233, 8594>> }

(***************************************************************************)
(* Tracker state                                                           *)
(***************************************************************************)
VARIABLES
  state,      \* the TrackerState of useState (App.tsx:85), NoState when unmounted
  role,       \* the selected role (App.tsx:86)
  mounted,    \* FALSE when initial() threw and the component never rendered
  store,      \* localStorage: key text -> value text
  clipboard,  \* the location last copied by share, NoLocation before
  clock,      \* the instant of the next event, read by new Date()
  boot,       \* what the last mount read (location, store) and bootstrap returned
  last,       \* the last operation performed and what it did
  other       \* the session of a second tab on the same store, NoSession if none

vars == <<state, role, mounted, store, clipboard, clock, boot, last, other>>

FieldNames == {"incidentId", "machineId", "machineName", "upn", "bu"}

NoState == [unmounted |-> TRUE]

NoLocation == [none |-> TRUE]

NoSession == [closed |-> TRUE]

NoKey == <<0>>

toKey(i, m) == Sym("unisov2:") \o i \o <<58>> \o m

\* localStorage.getItem: NoItem stands for null.
NoItem == <<-1>>

getItem(st, k) == IF k \in DOMAIN st THEN st[k] ELSE NoItem

setItem(st, k, v) == [x \in DOMAIN st \cup {k} |-> IF x = k THEN v ELSE st[x]]

\* The JSON value of a TrackerState, properties in the order of App.tsx:71-81.
StateValue(s) ==
  JObj(<< Prop(Sym("incidentId"), JStr(s.incidentId)),
          Prop(Sym("machineId"), JStr(s.machineId)),
          Prop(Sym("machineName"), JStr(s.machineName)),
          Prop(Sym("upn"), JStr(s.upn)),
          Prop(Sym("bu"), JStr(s.bu)),
          Prop(Sym("active"), JStr(Sym(s.active))),
          Prop(Sym("completed"),
               JObj([k \in 1..Len(s.completed) |->
                       Prop(Sym(s.completed[k].k), JStr(s.completed[k].v))])),
          Prop(Sym("log"),
               JArr([k \in 1..Len(s.log) |->
                       JObj(<< Prop(Sym("ts"), JStr(s.log[k].ts)),
                               Prop(Sym("who"), JStr(Sym(s.log[k].who))),
                               Prop(Sym("what"), JStr(s.log[k].what)) >>)])),
          Prop(Sym("readonly"), JBool(s.readonly)) >>)

(***************************************************************************)
(* Snapshot codec                                                          *)
(***************************************************************************)
HashPrefix == <<35, 115, 116, 97, 116, 101, 61>>   \* #state=

\* url.hash.replace(/^#state=/, "")
StripHashPrefix(h) ==
  IF StartsWith(h, 1, HashPrefix) THEN SubSeq(h, Len(HashPrefix) + 1, Len(h))
  ELSE h

\* btoa(unescape(encodeURIComponent(JSON.stringify(snap))))
ThenBtoa(bytes) == IF bytes.ok THEN btoa(bytes.v) ELSE Threw

EncodeSnapshot(snap) == ThenBtoa(Utf8Bytes(JSON_stringify(StateValue(snap))))

\* JSON.parse(decodeURIComponent(escape(atob(hash))))
\* A decoder that takes the bytes for the text (no UTF-8 decoding).
ThenLatin1Text(bytes) == bytes

ThenUtf8Text(bytes) == IF bytes.ok THEN Utf8Text(bytes.v) ELSE Threw

ThenParse(text) == IF text.ok THEN JSON_parse(text.v) ELSE Threw

DecodeSnapshot(hash) == ThenParse(ThenUtf8Text(atob(hash)))

(***************************************************************************)
(* Bootstrap and initial state                                             *)
(***************************************************************************)
\* url.searchParams.get(name) || "".  A location's search maps a parameter
\* name to the bytes its percent-encoding stands for.
OrEmpty(text) == IF text.ok THEN text.v ELSE <<>>

SearchParam(loc, name) ==
  IF name \in DOMAIN loc.search THEN OrEmpty(Utf8Text(loc.search[name]))
  ELSE <<>>

\* The five search parameters (App.tsx:57-61).
SearchParams(loc) ==
  [ incidentId  |-> SearchParam(loc, "incidentId"),
    machineId   |-> SearchParam(loc, "machineId"),
    upn         |-> SearchParam(loc, "upn"),
    bu          |-> SearchParam(loc, "bu"),
    machineName |-> SearchParam(loc, "machineName") ]

\* if (hash) { try { return decode } catch {} }
TrySnapshot(hash) == IF hash # <<>> THEN DecodeSnapshot(hash) ELSE Threw

\* if (cached) { try { return JSON.parse(cached) } catch {} }
TryCache(cached) ==
  IF cached \notin {NoItem, <<>>} THEN JSON_parse(cached) ELSE Threw

\* The parsed cache, or the last return of bootstrap().
FromCache(q, parsed) ==
  IF parsed.ok
  THEN [seed |-> parsed.v, source |-> "cache"]
  ELSE [seed |-> JObj(<< Prop(Sym("incidentId"), JStr(q.incidentId)),
                         Prop(Sym("machineId"), JStr(q.machineId)),
                         Prop(Sym("upn"), JStr(q.upn)),
                         Prop(Sym("bu"), JStr(q.bu)),
                         Prop(Sym("machineName"), JStr(q.machineName)) >>),
        source |-> "url"]

\* A bootstrap that prefers the cache to the snapshot.
CacheBeforeSnapshot(decoded, q, st) ==
  IF TryCache(getItem(st, toKey(q.incidentId, q.machineId))).ok \/ ~ decoded.ok
  THEN FromCache(q, TryCache(getItem(st, toKey(q.incidentId, q.machineId))))
  ELSE [seed |-> decoded.v, source |-> "snapshot"]

FromSnapshot(decoded, q, st) ==
  IF decoded.ok
  THEN [seed |-> decoded.v, source |-> "snapshot"]
  ELSE FromCache(q, TryCache(getItem(st, toKey(q.incidentId, q.machineId))))

\* bootstrap(): the seed, with the source it came from.
bootstrap(loc, st) ==
  FromSnapshot(TrySnapshot(StripHashPrefix(loc.hash)), SearchParams(loc), st)

\* seed.name || "" for a context field.  The seeds of the model hold a string
\* or nothing under the context fields.
SeedText(seed, name) ==
  LET v == Get(seed, Sym(name))
  IN  IF v.t = "string" THEN v.s ELSE <<>>

\* initial() from the seed bootstrap() returned: reading a property of a
\* null seed throws TypeError.
initial(seed, now) ==
      IF seed.t \in {"null", "undefined"} THEN Threw
      ELSE Returned(
        [ incidentId  |-> SeedText(seed, "incidentId"),
          machineId   |-> SeedText(seed, "machineId"),
          machineName |-> SeedText(seed, "machineName"),
          upn         |-> SeedText(seed, "upn"),
          bu          |-> SeedText(seed, "bu"),
          active      |-> DEFAULT_STEP,
          completed   |-> << Prop("started", toISOString(now)) >>,
          log         |-> << [ts |-> toISOString(now), who |-> "operator",
                              what |-> Sym("Tracker created")] >>,
          readonly    |-> Truthy(Get(seed, Sym("readonly"))) ])

(***************************************************************************)
(* Persistence effect                                                      *)
(***************************************************************************)
\* A persistence effect without the read-only check.
PersistKeyOfAnySession(s) ==
  IF s.incidentId = <<>> \/ s.machineId = <<>> THEN NoKey
  ELSE toKey(s.incidentId, s.machineId)

\* A persistence effect that writes under a key even when an id is empty.
PersistKeyOfAnyIds(s) ==
  IF s.readonly THEN NoKey ELSE toKey(s.incidentId, s.machineId)

\* The key the effect of App.tsx:89-93 writes for state s, NoKey when it returns early.
PersistKey(s) ==
  IF s.readonly THEN NoKey
  ELSE IF s.incidentId = <<>> \/ s.machineId = <<>> THEN NoKey
  ELSE toKey(s.incidentId, s.machineId)

\* A persistence effect with conflict detection: a stored record longer than
\* the one to write is kept.
PersistUnlessBehind(s, st) ==
  IF PersistKey(s) = NoKey THEN st
  ELSE IF /\ PersistKey(s) \in DOMAIN st
          /\ Len(st[PersistKey(s)]) > Len(JSON_stringify(StateValue(s)))
    THEN st
  ELSE setItem(st, PersistKey(s), JSON_stringify(StateValue(s)))

Persist(s, st) ==
  IF PersistKey(s) = NoKey THEN st
  ELSE setItem(st, PersistKey(s), JSON_stringify(StateValue(s)))

(***************************************************************************)
(* Role gate and mutations                                                 *)
(***************************************************************************)
\* order.indexOf(id), 0-based, -1 when absent.
indexOf(id) ==
  IF \E k \in 1..Len(STEPS) : STEPS[k].id = id
  THEN (CHOOSE k \in 1..Len(STEPS) : STEPS[k].id = id) - 1
  ELSE -1

\* A lookup that is one position off.
orderAtOneOff(j) ==
  IF j + 1 >= 0 /\ j + 1 < Len(STEPS) THEN STEPS[j + 2].id ELSE NoStep

\* order[j] || null, 0-based.
orderAt(j) == IF j >= 0 /\ j < Len(STEPS) THEN STEPS[j + 1].id ELSE NoStep

\* A gate that lets it and hob approve from any step but the last.
nextForAnyStep(r, s) ==
  IF orderAt(indexOf(s.active) + 1) = NoStep THEN NoStep
  ELSE IF r = "operator" THEN orderAt(indexOf(s.active) + 1)
  ELSE IF r = "it" THEN "it_ok"
  ELSE "hob_ok"

\* A gate that lets it approve only once its mail was sent.
nextForAfterMail(r, s) ==
  IF orderAt(indexOf(s.active) + 1) = NoStep THEN NoStep
  ELSE IF r = "operator" THEN orderAt(indexOf(s.active) + 1)
  ELSE IF r = "it" /\ s.active \in {"it_sent", "it_ok"} THEN "it_ok"
  ELSE IF r = "hob" /\ s.active \in {"hob_sent", "hob_ok"} THEN "hob_ok"
  ELSE NoStep

\* A gate that lets it approve before the machine was validated.
nextForFromStart(r, s) ==
  IF orderAt(indexOf(s.active) + 1) = NoStep THEN NoStep
  ELSE IF r = "operator" THEN orderAt(indexOf(s.active) + 1)
  ELSE IF r = "it" /\ s.active \in {"started", "validated", "it_sent", "it_ok"}
    THEN "it_ok"
  ELSE IF r = "hob" /\ s.active \in {"it_ok", "hob_sent", "hob_ok"} THEN "hob_ok"
  ELSE NoStep

nextFor(r, s) ==
  LET id == s.active
      i == indexOf(id)
      next == orderAt(i + 1)
  IN  IF next = NoStep THEN NoStep
      ELSE IF r = "operator" THEN next
      ELSE IF r = "it" /\ id \in {"it_sent", "it_ok", "validated"} THEN "it_ok"
      ELSE IF r = "hob" /\ id \in {"hob_sent", "hob_ok", "it_ok"} THEN "hob_ok"
      ELSE NoStep

\* STEPS.find(s => s.id === n)?.label
labelOf(n) == STEPS[indexOf(n) + 1].label

HasCompleted(c, id) == \E k \in 1..Len(c) : c[k].k = id

CompletedAt(c, id) == c[CHOOSE k \in 1..Len(c) : c[k].k = id].v

\* A completion map that records no arrival.
withCompletedNever(c, id, ts) == c

\* A completion map that records the latest arrival.
withCompletedLatest(c, id, ts) ==
  IF HasCompleted(c, id)
  THEN [k \in 1..Len(c) |-> IF c[k].k = id THEN Prop(id, ts) ELSE c[k]]
  ELSE Append(c, Prop(id, ts))

\* { ...s.completed, [id]: s.completed[id] || ts }
withCompleted(c, id, ts) ==
  IF HasCompleted(c, id) THEN c ELSE Append(c, Prop(id, ts))

\* An updater that signs every entry as the operator.
setActiveUpdateAsOperator(s, id, who, note, ts) ==
  [s EXCEPT !.active = id,
            !.completed = withCompleted(s.completed, id, ts),
            !.log = Append(s.log, [ts |-> ts, who |-> "operator", what |-> note])]

\* The updater of setActive (App.tsx:100-105).
setActiveUpdate(s, id, who, note, ts) ==
  [s EXCEPT !.active = id,
            !.completed = withCompleted(s.completed, id, ts),
            !.log = Append(s.log, [ts |-> ts, who |-> who, what |-> note])]

\* `${role} advanced -> ${label}`
advanceNote(r, n) == Sym(r) \o Sym(" advanced -> ") \o Sym(labelOf(n))

\* An updater of a context input that also logs the edit.
setFieldUpdateLogged(s, name, value) ==
  [s EXCEPT ![name] = value,
            !.log = Append(s.log, [ts |-> <<>>, who |-> "operator", what |-> value])]

\* The updater of a context input: s => ({ ...s, [name]: e.target.value }).
setFieldUpdate(s, name, value) == [s EXCEPT ![name] = value]

\* The updater of reset (App.tsx:119-129).
resetUpdate(s, now) ==
  [ incidentId  |-> s.incidentId,
    machineId   |-> s.machineId,
    machineName |-> s.machineName,
    upn         |-> s.upn,
    bu          |-> s.bu,
    active      |-> DEFAULT_STEP,
    completed   |-> << Prop("started", now) >>,
    log         |-> << [ts |-> now, who |-> "operator",
                        what |-> Sym("Tracker reset")] >>,
    readonly    |-> FALSE ]

\* The location share copies (App.tsx:109-112); ok is FALSE when it threw.
LocationOf(b64, i, m) ==
  IF b64.ok /\ i.ok /\ m.ok
  THEN Returned([hash |-> HashPrefix \o b64.v,
                 search |-> [incidentId |-> i.v, machineId |-> m.v]])
  ELSE Threw

shareLocation(s) ==
  LocationOf(EncodeSnapshot([s EXCEPT !.readonly = TRUE]),
             Utf8Bytes(s.incidentId), Utf8Bytes(s.machineId))

(***************************************************************************)
(* Inputs: locations and what the local store held before the session      *)
(***************************************************************************)
\* A state an earlier session reached, with ("a", "a") as its identifying keys.
PriorState ==
  [ incidentId |-> <<97>>, machineId |-> <<97>>, machineName |-> <<>>,
    upn |-> <<233>>, bu |-> <<>>,
    active |-> "validated",
    completed |-> << Prop("started", toISOString(0)),
                     Prop("validated", toISOString(0)) >>,
    log |-> << [ts |-> toISOString(0), who |-> "operator",
                what |-> Sym("Tracker created")],
               [ts |-> toISOString(0), who |-> "operator",
                what |-> advanceNote("operator", "validated")] >>,
    readonly |-> FALSE ]

NoSearch == <<>>

KeyedSearch == [incidentId |-> <<97>>, machineId |-> <<97>>]

\* The link the earlier session shared.
SharedLink == shareLocation(PriorState).v

\* Fragments: none, and tokens well-formed to each depth of the decoding.
Hashes ==
  { <<>>,                                              \* no fragment
    <<35, 120>>,                                       \* #x
    HashPrefix \o <<33>>,                              \* not base64
    HashPrefix \o btoa(<<255>>).v,                     \* not UTF-8
    HashPrefix \o btoa(<<123, 120>>).v,                \* {x : not JSON
    HashPrefix \o btoa(<<110, 117, 108, 108>>).v,      \* null
    HashPrefix \o btoa(<<53>>).v,                      \* 5
    HashPrefix \o btoa(<<123, 125>>).v,                \* {}
    SharedLink.hash }

Searches ==
  { NoSearch,
    [incidentId |-> <<97>>],
    KeyedSearch,
    [incidentId |-> <<97>>, machineId |-> <<97>>, upn |-> <<195, 169>>,
     bu |-> <<98>>, machineName |-> <<109>>] }

Locations == { [hash |-> h, search |-> q] : h \in Hashes, q \in Searches }

\* What the store may hold under the key of ("a", "a") when the page is opened.
CachedValues ==
  { <<>>,                                    \* the empty string
    <<123, 120>>,                            \* {x : unparsable
    <<110, 117, 108, 108>>,                  \* null
    <<53>>,                                  \* 5
    JSON_stringify(StateValue(PriorState)) }

InitialStores ==
  { <<>> } \cup { [k \in {toKey(<<97>>, <<97>>)} |-> v] : v \in CachedValues }

\* The narrow inputs of the session specification.
StartLocations ==
  { [hash |-> <<>>, search |-> NoSearch],
    [hash |-> <<>>, search |-> KeyedSearch],
    SharedLink }

StartStores ==
  { <<>>,
    [k \in {toKey(<<97>>, <<97>>)} |-> JSON_stringify(StateValue(PriorState))] }

(***************************************************************************)
(* Actions                                                                 *)
(***************************************************************************)
Op(op) == [op |-> op, who |-> "", field |-> "", denied |-> FALSE, wrote |-> NoKey]

\* The component mounts at loc over store st at time now: useState(initial()),
\* then the persistence effect.  The values of the variables after it.
MountedWith(loc, st, b, r) ==
  [ boot    |-> [loc |-> loc, store |-> st, seed |-> b.seed,
                 source |-> b.source, threw |-> ~ r.ok],
    mounted |-> r.ok,
    state   |-> IF r.ok THEN r.v ELSE NoState,
    store   |-> IF r.ok THEN Persist(r.v, st) ELSE st,
    last    |-> [Op("mount") EXCEPT
                   !.wrote = IF r.ok THEN PersistKey(r.v) ELSE NoKey] ]

MountedFrom(loc, st, b, now) == MountedWith(loc, st, b, initial(b.seed, now))

Mounted(loc, st, now) == MountedFrom(loc, st, bootstrap(loc, st), now)

\* The page is opened at one of locs over one of stores, at time 0.
Start(locs, stores) ==
  \E loc \in locs, st \in stores :
    \E m \in {Mounted(loc, st, 0)} :
        /\ boot = m.boot
        /\ mounted = m.mounted
        /\ state = m.state
        /\ store = m.store
        /\ last = m.last
        /\ role = "operator"
        /\ clock = 1
        /\ clipboard = NoLocation
        /\ other = NoSession

\* The page is opened again at one of locs, over the store as it is.
Navigate(locs) ==
  /\ clock < MaxClock
  /\ \E loc \in locs :
       \E m \in {Mounted(loc, store, clock)} :
           /\ boot' = m.boot
           /\ mounted' = m.mounted
           /\ state' = m.state
           /\ store' = m.store
           /\ last' = m.last
           /\ role' = "operator"
           /\ clock' = clock + 1
           /\ UNCHANGED <<clipboard, other>>

\* The role is selected (App.tsx:207) and the button clicked: advance().
\* limit bounds the clock of the behaviour.
advanceWithin(limit) ==
  /\ mounted
  /\ \E r \in Role :
       \E n \in {nextFor(r, state)} :
           /\ role' = r
           /\ IF n = NoStep
              THEN \* alert("No permitted next step for this role.")
                   /\ last' = [Op("advance") EXCEPT !.who = r, !.denied = TRUE]
                   /\ UNCHANGED <<state, store, clock>>
              ELSE IF state.readonly
              THEN \* setActive returns before setState
                   /\ last' = [Op("advance") EXCEPT !.who = r]
                   /\ UNCHANGED <<state, store, clock>>
              ELSE /\ clock < limit
                   /\ state' = setActiveUpdate(state, n, r, advanceNote(r, n),
                                               toISOString(clock))
                   /\ clock' = clock + 1
                   /\ store' = Persist(state', store)
                   /\ last' = [Op("advance") EXCEPT
                                 !.who = r, !.wrote = PersistKey(state')]
  /\ UNCHANGED <<mounted, clipboard, boot, other>>

advance == advanceWithin(MaxClock)

\* onChange of one of the context inputs names (App.tsx:224-240).
setFieldAmong(names) ==
  /\ mounted
  /\ clock < MaxClock
  /\ \E name \in names :
       \E value \in (IF name \in {"incidentId", "machineId"}
                     THEN IdTexts ELSE ContextTexts) :
         /\ state' = setFieldUpdate(state, name, value)
         /\ store' = Persist(state', store)
         /\ last' = [Op("setField") EXCEPT !.field = name,
                                           !.wrote = PersistKey(state')]
  /\ clock' = clock + 1
  /\ UNCHANGED <<role, mounted, clipboard, boot, other>>

setField == setFieldAmong(FieldNames)

\* reset(): ok is the answer to confirm().
reset ==
  /\ mounted
  /\ \E ok \in BOOLEAN :
       IF ~ ok
       THEN /\ last' = [Op("reset") EXCEPT !.denied = TRUE]
            /\ UNCHANGED <<state, store, clock>>
       ELSE /\ clock < MaxClock
            /\ state' = resetUpdate(state, toISOString(clock))
            /\ clock' = clock + 1
            /\ store' = Persist(state', store)
            /\ last' = [Op("reset") EXCEPT !.wrote = PersistKey(state')]
  /\ UNCHANGED <<role, mounted, clipboard, boot, other>>

\* share(): the link goes to the clipboard.
share ==
  /\ mounted
  /\ clock < MaxClock
  /\ \E url \in {shareLocation(state)} :
         /\ clipboard' = IF url.ok THEN url.v ELSE clipboard
         /\ last' = [Op("share") EXCEPT !.denied = ~ url.ok]
  /\ clock' = clock + 1
  /\ UNCHANGED <<state, role, mounted, store, boot, other>>

\* The component instance of this tab: its useState values (App.tsx:85-86)
\* and what its mount read.
Session == [state |-> state, role |-> role, mounted |-> mounted, boot |-> boot]

\* A second tab is opened at one of locs over the store as it is; the first
\* tab keeps its component state and goes to the background.
openTab(locs) ==
  /\ other = NoSession
  /\ clock < MaxClock
  /\ \E loc \in locs :
       \E m \in {Mounted(loc, store, clock)} :
           /\ boot' = m.boot
           /\ mounted' = m.mounted
           /\ state' = m.state
           /\ store' = m.store
           /\ last' = m.last
           /\ role' = "operator"
           /\ clock' = clock + 1
           /\ other' = Session
           /\ UNCHANGED clipboard

\* The user turns to the other tab: nothing is read or written, each
\* component instance has the state it had.
switchTab ==
  /\ other # NoSession
  /\ state' = other.state
  /\ role' = other.role
  /\ mounted' = other.mounted
  /\ boot' = other.boot
  /\ other' = Session
  /\ last' = Op("switch")
  /\ UNCHANGED <<store, clipboard, clock>>

(***************************************************************************)
(* Specifications                                                          *)
(***************************************************************************)
\* A session: opened at one of the narrow locations, then operated.
Init == Start(StartLocations, StartStores)

Next == advance \/ setField \/ reset \/ share

Spec == Init /\ [][Next]_vars

\* Loading: every location over every initial store, then progress and reloads.
InitBoot == Start(Locations, InitialStores)

Reload == Navigate({boot.loc})

NextBoot == Reload \/ advance

SpecBoot == InitBoot /\ [][NextBoot]_vars

\* The flow: a fresh tracker advanced by the three roles up to its last step.
InitFlow ==
  Start({ [hash |-> <<>>, search |-> NoSearch],
          [hash |-> <<>>, search |-> KeyedSearch] }, {<<>>})

advanceFlow == advanceWithin(MaxFlowClock)

NextFlow == advanceFlow

SpecFlow == InitFlow /\ [][NextFlow]_vars

\* Two tabs on one store, empty at first: the tracker of ("a", "a") by its
\* query, and the read-only link shared for it.
TabLocations == { [hash |-> <<>>, search |-> KeyedSearch], SharedLink }

InitTabs == Start(TabLocations, {<<>>})

secondTab == openTab(TabLocations)

\* The inputs typed into in the tabs: one of the key, one of the context.
setTabField == setFieldAmong({"incidentId", "upn"})

\* share writes nothing to the store or the state and is left to Spec.
NextTabs == secondTab \/ switchTab \/ advance \/ setTabField \/ reset

SpecTabs == InitTabs /\ [][NextTabs]_vars

(***************************************************************************)
(* Properties                                                              *)
(***************************************************************************)
SeedHas(seed, name) == seed.t = "object" /\ HasProp(seed.o, Sym(name))

SameInSeed(name) ==
  Get(StateValue(state), Sym(name)) = Get(boot.seed, Sym(name))

\* C1: right after a mount whose seed is a decoded snapshot or a parsed cache
\* record holding active, completed and log, the state has exactly the seed's
\* active, completed and log (the defaults fill only what the seed lacks).
C1_DefaultFill ==
  ( /\ last.op = "mount"
    /\ mounted
    /\ boot.source \in {"snapshot", "cache"}
    /\ SeedHas(boot.seed, "active")
    /\ SeedHas(boot.seed, "completed")
    /\ SeedHas(boot.seed, "log") )
  => /\ SameInSeed("active")
     /\ SameInSeed("completed")
     /\ SameInSeed("log")

\* C2: an advance by any role on a state that is not read-only either moves
\* active to a later step of the catalog (the step one position after it, for
\* the operator), or leaves the whole state as it was and reports denial:
\* no advance changes the log alone.
C2_AdvanceAllOrNothing ==
  [][ (last'.op = "advance" /\ ~ state.readonly)
      => \/ /\ indexOf(state'.active) > indexOf(state.active)
            /\ (last'.who = "operator"
                  => indexOf(state'.active) = indexOf(state.active) + 1)
         \/ /\ state' = state
            /\ last'.denied ]_vars

\* The gating table: the step role r may move to from the active step id.
GatingTable(r, id) ==
  IF r = "operator"
  THEN CASE id = "started"   -> "validated"
         [] id = "validated" -> "it_sent"
         [] id = "it_sent"   -> "it_ok"
         [] id = "it_ok"     -> "hob_sent"
         [] id = "hob_sent"  -> "hob_ok"
         [] id = "hob_ok"    -> "unisolate"
         [] id = "unisolate" -> "done"
         [] id = "done"      -> NoStep
  ELSE IF r = "it"
  THEN IF id \in {"validated", "it_sent", "it_ok"} THEN "it_ok" ELSE NoStep
  ELSE IF id \in {"it_ok", "hob_sent", "hob_ok"} THEN "hob_ok" ELSE NoStep

\* C3: nextFor agrees with the gating table for the three roles at each of
\* the eight steps.
C3_GatingTable ==
  \A r \in Role : \A id \in StepId :
    nextFor(r, [state EXCEPT !.active = id]) = GatingTable(r, id)

\* Every role is denied at the last step, which the flow has reached.
C3_DeniedAtDone ==
  /\ state.active = "done"
  /\ Len(state.completed) = Len(STEPS)
  /\ last.op = "advance"
  /\ last.who = "hob"
  /\ last.denied

\* C4: while readonly is true, advance, setField and reset leave the state
\* as it was, the flag included.
C4_ReadonlyRejects ==
  [][ (mounted /\ state.readonly /\ last'.op \in {"advance", "setField", "reset"})
      => state' = state ]_vars

\* A state the persistence effect writes: not read-only, both ids non-empty.
Persistable(s) == ~ s.readonly /\ s.incidentId # <<>> /\ s.machineId # <<>>

\* The store st after the persistence effect ran for state s.
WrittenThrough(s, st) ==
  IF Persistable(s)
  THEN [k \in DOMAIN st \cup {toKey(s.incidentId, s.machineId)} |->
          IF k = toKey(s.incidentId, s.machineId)
          THEN JSON_stringify(StateValue(s)) ELSE st[k]]
  ELSE st

\* C5: after the mount and after every change of the state, the store is the
\* store before it with the serialization of the state under the key of its
\* ids when the state is not read-only and both ids are non-empty, and is the
\* store before it otherwise; no other key is written.
C5_WriteThrough ==
  /\ (mounted => store = WrittenThrough(state, boot.store))
  /\ [][ /\ (state' # state => store' = WrittenThrough(state', store))
         /\ (state' = state => store' = store) ]_vars

\* An advance on a tracker with non-ASCII text was written under its key.
C5_WrittenUnderKey ==
  /\ last.op = "advance"
  /\ state.active = "validated"
  /\ Persistable(state)
  /\ state.upn = <<233, 8594>>
  /\ store[toKey(state.incidentId, state.machineId)]
       = JSON_stringify(StateValue(state))
  /\ boot.source = "url"

\* C6: an advance or a setField keeps every entry of completed, with its
\* timestamp and in its place.
C6_FirstArrivalWins ==
  [][ last'.op \in {"advance", "setField"}
      => /\ Len(state'.completed) >= Len(state.completed)
         /\ \A k \in 1..Len(state.completed) :
              state'.completed[k] = state.completed[k] ]_vars

\* it advanced from it_ok to it_ok: the log has the later arrival, completed
\* the first.
C6_SecondArrival ==
  /\ last.op = "advance"
  /\ last.who = "it"
  /\ ~ last.denied
  /\ state.active = "it_ok"
  /\ Len(state.log) = 4
  /\ state.log[3].what = advanceNote("it", "it_ok")
  /\ state.log[4].what = advanceNote("it", "it_ok")
  /\ CompletedAt(state.completed, "it_ok") = state.log[3].ts
  /\ CompletedAt(state.completed, "it_ok") # state.log[4].ts

\* What the precedence of the sources gives for location loc over store st.
SeedByPrecedence(loc, st) ==
  LET token == StripHashPrefix(loc.hash)
      snapshot == IF token # <<>> THEN DecodeSnapshot(token) ELSE Threw
      i == SearchParam(loc, "incidentId")
      m == SearchParam(loc, "machineId")
      cached == IF toKey(i, m) \in DOMAIN st THEN st[toKey(i, m)] ELSE <<>>
      record == IF cached # <<>> THEN JSON_parse(cached) ELSE Threw
  IN  IF snapshot.ok THEN [seed |-> snapshot.v, source |-> "snapshot"]
      ELSE IF record.ok THEN [seed |-> record.v, source |-> "cache"]
      ELSE [seed |-> JObj(<< Prop(Sym("incidentId"), JStr(i)),
                             Prop(Sym("machineId"), JStr(m)),
                             Prop(Sym("upn"), JStr(SearchParam(loc, "upn"))),
                             Prop(Sym("bu"), JStr(SearchParam(loc, "bu"))),
                             Prop(Sym("machineName"),
                                  JStr(SearchParam(loc, "machineName"))) >>),
            source |-> "url"]

\* C7: the seed of a mount is the decoded token when there is one that
\* decodes, else the parsed cache record under the key of the query's ids
\* when there is one that parses, else the query parameters alone.
C7_Precedence ==
  last.op = "mount"
  => [seed |-> boot.seed, source |-> boot.source]
       = SeedByPrecedence(boot.loc, boot.store)

\* Scenario F: a token that fails to decode, over a valid cache entry.
C7_FallThroughToCache ==
  /\ last.op = "mount"
  /\ StripHashPrefix(boot.loc.hash) # <<>>
  /\ ~ DecodeSnapshot(StripHashPrefix(boot.loc.hash)).ok
  /\ boot.source = "cache"
  /\ boot.seed = StateValue(PriorState)

\* C8: in a session opened read-only, no operation writes to the store.
C8_ReadonlyNeverPersisted ==
  [][ Truthy(Get(boot.seed, Sym("readonly"))) => store' = store ]_vars

\* C9: share leaves the state as it is, and the token it produces decodes to
\* the state with readonly true.
C9_RoundTrip ==
  [][ last'.op = "share"
      => /\ state' = state
         /\ ~ last'.denied
         /\ DecodeSnapshot(StripHashPrefix(clipboard'.hash))
              = Returned(StateValue([state EXCEPT !.readonly = TRUE])) ]_vars

\* A session that is not read-only shared a state with non-ASCII text.
C9_SharedUnicode ==
  /\ last.op = "share"
  /\ ~ last.denied
  /\ ~ state.readonly
  /\ state.upn = <<233, 8594>>
  /\ state.active = "validated"
  /\ clipboard # NoLocation
  /\ Truthy(Get(DecodeSnapshot(StripHashPrefix(clipboard.hash)).v,
                Sym("readonly")))

\* C10: every mount completes with a complete TrackerState.
C10_NeverFatal ==
  last.op = "mount"
  => /\ ~ boot.threw
     /\ mounted
     /\ DOMAIN state = FieldNames \cup {"active", "completed", "log", "readonly"}

\* C11: a declined reset leaves the state as it was; a confirmed reset keeps
\* the five context fields, clears readonly, and sets active, completed and
\* log to what a fresh creation at that instant produces (the single log
\* entry has the role and the description of the creation entry).
C11_ResetRecreates ==
  [][ last'.op = "reset"
      => IF last'.denied
         THEN state' = state
         ELSE state' =
                [state EXCEPT
                   !.active = DEFAULT_STEP,
                   !.completed = << Prop("started", toISOString(clock)) >>,
                   !.log = << [ts |-> toISOString(clock), who |-> "operator",
                               what |-> Sym("Tracker created")] >>,
                   !.readonly = FALSE] ]_vars

\* C12: in every state of a mounted tracker, active is a step of the catalog
\* and completed has an entry for it.
C12_ActiveRecorded ==
  mounted
  => /\ state.active \in { STEPS[k].id : k \in 1..Len(STEPS) }
     /\ \E k \in 1..Len(state.completed) : state.completed[k].k = state.active

\* hob approved right after it: four steps recorded, the last the active one.
C12_HobApproved ==
  /\ last.op = "advance"
  /\ last.who = "hob"
  /\ state.active = "hob_ok"
  /\ Len(state.completed) = 4
  /\ state.completed[4].k = "hob_ok"

\* log is a prefix of log2, in the same order.
IsPrefix(log, log2) ==
  /\ Len(log) <= Len(log2)
  /\ \A k \in 1..Len(log) : log2[k] = log[k]

\* What an operation other than a confirmed reset does to the log: a
\* permitted advance on a state that is not read-only appends one entry signed
\* by its role; every other one leaves the log as it was.
LogStep ==
  IF last'.op = "advance" /\ ~ last'.denied /\ ~ state.readonly
  THEN /\ Len(state'.log) = Len(state.log) + 1
       /\ IsPrefix(state.log, state'.log)
       /\ state'.log[Len(state'.log)].who = last'.who
  ELSE state'.log = state.log

\* C13 as stated: every operation leaves the previous log as a prefix of the
\* new log; a permitted advance by role r appends exactly one entry whose who
\* is r, and a denied advance or a setField appends none.
C13_AppendOnly ==
  [][ IsPrefix(state.log, state'.log) /\ (last'.op # "reset" => LogStep) ]_vars

\* C13, amended: advance, setField, share and a declined reset leave the
\* previous log as a prefix of the new one (one entry signed by the role more
\* after a permitted advance on a state that is not read-only, none more
\* otherwise); a confirmed reset replaces the log by one entry.
C13_AppendOnlyButReset ==
  [][ IF last'.op = "reset" /\ ~ last'.denied
      THEN Len(state'.log) = 1
      ELSE LogStep ]_vars

\* Scenario D: hob advanced from it_ok; the log's new entry is signed hob.
C13_HobSigned ==
  /\ last.op = "advance"
  /\ last.who = "hob"
  /\ ~ last.denied
  /\ state.active = "hob_ok"
  /\ Len(state.log) = 4
  /\ state.log[3].who = "it"
  /\ state.log[4].who = "hob"
  /\ state.log[4].what = advanceNote("hob", "hob_ok")

\* The 0-based position of step id in the catalog.
CatalogIndex(id) == (CHOOSE k \in 1..Len(STEPS) : STEPS[k].id = id) - 1

\* C14: an advance never moves active to an earlier step; it moves it more
\* than one position ahead only when it moves to it_ok or hob moves to
\* hob_ok; from done, active stays done.
C14_ForwardOnly ==
  [][ last'.op = "advance"
      => /\ CatalogIndex(state'.active) >= CatalogIndex(state.active)
         /\ (CatalogIndex(state'.active) > CatalogIndex(state.active) + 1
               => \/ last'.who = "it" /\ state'.active = "it_ok"
                  \/ last'.who = "hob" /\ state'.active = "hob_ok")
         /\ (state.active = "done" => state'.active = "done") ]_vars

\* it moved from validated to it_ok, two positions ahead.
C14_ItJumped ==
  /\ last.op = "advance"
  /\ last.who = "it"
  /\ state.active = "it_ok"
  /\ Len(state.log) = 3
  /\ state.log[2].what = advanceNote("operator", "validated")
  /\ state.log[3].what = advanceNote("it", "it_ok")

\* C15: a setField on a state that is not read-only leaves every field but
\* the named one as it was (active, completed, log, readonly and the other
\* context fields), so the log gets no entry; when the named field keeps its
\* value, the whole state is what it was.
C15_OnlyTheNamedField ==
  [][ (last'.op = "setField" /\ ~ state.readonly)
      => /\ DOMAIN state' = DOMAIN state
         /\ \A f \in DOMAIN state \ {last'.field} : state'[f] = state[f]
         /\ (state'[last'.field] = state[last'.field] => state' = state) ]_vars

\* upn was typed, with non-ASCII text, into a tracker that had advanced.
C15_UpnTyped ==
  /\ last.op = "setField"
  /\ last.field = "upn"
  /\ ~ state.readonly
  /\ state.upn = <<233, 8594>>
  /\ state.active = "validated"
  /\ Len(state.log) = 2

\* The tracker was opened with no query parameters, no fragment and no cache.
OpenedFresh ==
  /\ boot.loc.hash = <<>>
  /\ boot.loc.search = NoSearch
  /\ boot.store = <<>>

\* The creation entry and, after it, entries of operator advances only.
OperatorOnly == \A k \in 1..Len(state.log) : state.log[k].who = "operator"

\* C17: a tracker opened fresh and advanced k times by the operator alone
\* (its log has k + 1 entries, 0 <= k <= 7) has active at index k of the
\* catalog and exactly the first k + 1 steps in completed; for k = 0 this is
\* Scenario A, for k = 7 it is Scenario B (done, 8 completed, 8 log entries).
C17_OperatorFlow ==
  (OpenedFresh /\ OperatorOnly)
  => /\ Len(state.log) \in 1..Len(STEPS)
     /\ state.active = STEPS[Len(state.log)].id
     /\ Len(state.completed) = Len(state.log)
     /\ \A j \in 1..Len(state.completed) : state.completed[j].k = STEPS[j].id
     /\ state.log[1].what = Sym("Tracker created")
     /\ (state.active = "done" => Len(state.log) = 8 /\ Len(state.completed) = 8)

\* Scenario B: seven operator advances from the fresh tracker ended at done.
C17_ScenarioB ==
  /\ OpenedFresh
  /\ OperatorOnly
  /\ state.active = "done"
  /\ Len(state.log) = 8
  /\ Len(state.completed) = 8
  /\ last.op = "advance"
  /\ last.who = "operator"
  /\ ~ last.denied

\* The property name of the JSON text record, undefined when it has none or
\* is no JSON text.
RecordProperty(record, name) ==
  IF JSON_parse(record).ok THEN Get(JSON_parse(record).v, Sym(name))
  ELSE JUndefined

\* The key of the query's incidentId and machineId.
QueryKey(loc) ==
  toKey(SearchParam(loc, "incidentId"), SearchParam(loc, "machineId"))

\* C18: right after a mount without a fragment, at a query whose incidentId
\* and machineId are the key of a record the store already held, the record
\* under that key has the active, completed and log it had before.
C18_LoadKeepsProgress ==
  ( /\ last.op = "mount"
    /\ boot.loc.hash = <<>>
    /\ SearchParam(boot.loc, "incidentId") # <<>>
    /\ SearchParam(boot.loc, "machineId") # <<>>
    /\ QueryKey(boot.loc) \in DOMAIN boot.store
    /\ JSON_parse(boot.store[QueryKey(boot.loc)]).ok )
  => /\ QueryKey(boot.loc) \in DOMAIN store
     /\ \A name \in {"active", "completed", "log"} :
          RecordProperty(store[QueryKey(boot.loc)], name)
            = RecordProperty(boot.store[QueryKey(boot.loc)], name)

\* The steps the it and hob jumps pass over: the two mails.
Mails == {"it_sent", "hob_sent"}

\* C19 as stated: every step whose catalog index is lower than the index of
\* active has a timestamp in completed, so at done all 8 steps have one.
C19_AllLowerStamped ==
  \A id \in StepId :
    CatalogIndex(id) < CatalogIndex(state.active)
      => \E k \in 1..Len(state.completed) : state.completed[k].k = id

\* C19 amended: active has a timestamp, and so has every step of lower
\* catalog index other than the two mails; a mail of lower index lacks its
\* timestamp only while the approval after it has one; and when every log
\* entry is the operator's, every step of lower index has a timestamp.
C19_LowerStampedButMails ==
  /\ \E k \in 1..Len(state.completed) : state.completed[k].k = state.active
  /\ \A id \in StepId \ Mails :
       CatalogIndex(id) < CatalogIndex(state.active)
         => \E k \in 1..Len(state.completed) : state.completed[k].k = id
  /\ \A id \in Mails :
       ( /\ CatalogIndex(id) < CatalogIndex(state.active)
         /\ ~ \E k \in 1..Len(state.completed) : state.completed[k].k = id )
       => \E k \in 1..Len(state.completed) :
            CatalogIndex(state.completed[k].k) = CatalogIndex(id) + 1
  /\ OperatorOnly => C19_AllLowerStamped

\* The tracker is at done and the mail to IT never got a timestamp.
C19_DoneWithoutItMail ==
  /\ state.active = "done"
  /\ ~ \E k \in 1..Len(state.completed) : state.completed[k].k = "it_sent"
  /\ \E k \in 1..Len(state.completed) : state.completed[k].k = "it_ok"

\* The key of the ids of state s.
KeyOf(s) == toKey(s.incidentId, s.machineId)

\* The tab of state s and the tab in the background o are two sessions, neither
\* read-only, holding the same non-empty ids.
TwoWriters(s, o) ==
  /\ o # NoSession
  /\ o.mounted
  /\ Persistable(s)
  /\ Persistable(o.state)
  /\ KeyOf(s) = KeyOf(o.state)

Mutations == {"advance", "setField", "reset"}

\* C16: with two sessions, neither read-only, holding the same non-empty
\* ids, each mutation of either leaves under their key the serialization of
\* the full state of the session that mutated, whatever the other had written
\* there, and leaves the other session's state as it was; turning to the
\* other tab, a denied advance and a declined reset leave the store and both
\* states as they are, so the store holds the state of whichever session
\* mutated last.
C16_LastWriteWins ==
  [][ /\ ( /\ mounted'
           /\ last'.op \in Mutations
           /\ clock' # clock
           /\ TwoWriters(state', other') )
         => /\ KeyOf(state') \in DOMAIN store'
            /\ store'[KeyOf(state')] = JSON_stringify(StateValue(state'))
            /\ other' = other
      /\ (last'.op \in Mutations /\ clock' = clock)
         => state' = state /\ store' = store /\ other' = other
      /\ last'.op = "switch"
         => /\ store' = store
            /\ state' = other.state
            /\ other'.state = state ]_vars

\* Two tabs on the tracker of the same ids: the tab now in the background
\* advanced and wrote, then this tab typed a user name, and the store holds
\* this tab's state, which has the shorter log.
C16_ProgressOverwritten ==
  /\ mounted
  /\ TwoWriters(state, other)
  /\ last.op = "setField"
  /\ last.wrote = KeyOf(state)
  /\ Len(other.state.log) > Len(state.log)
  /\ store[KeyOf(state)] = JSON_stringify(StateValue(state))
  /\ store[KeyOf(state)] # JSON_stringify(StateValue(other.state))

\* record, the parse of the text under key k of the store, is a JSON object
\* whose readonly is false and whose incidentId and machineId are non-empty
\* strings of which k is the key.
WellKeyedRecord(k, record) ==
  /\ record.ok
  /\ record.v.t = "object"
  /\ \E i \in {Get(record.v, Sym("incidentId"))} :
       \E m \in {Get(record.v, Sym("machineId"))} :
         /\ i.t = "string" /\ i.s # <<>>
         /\ m.t = "string" /\ m.s # <<>>
         /\ k = Sym("unisov2:") \o i.s \o <<58>> \o m.s
  /\ Get(record.v, Sym("readonly")) = JBool(FALSE)

WellKeyed(k, text) == \E record \in {JSON_parse(text)} : WellKeyedRecord(k, record)

\* C20: from an empty store, whatever the sessions did, every record of the
\* store has readonly false and non-empty incidentId and machineId and is
\* under the key of its ids; and a session whose bootstrap read its state
\* from the cache is not read-only.
C20_StoreWellKeyed ==
  /\ \A k \in DOMAIN store : WellKeyed(k, store[k])
  /\ (mounted /\ boot.source = "cache") => ~ state.readonly
  /\ (other # NoSession /\ other.mounted /\ other.boot.source = "cache")
       => ~ other.state.readonly

\* A second tab read its state from the record the first tab wrote, while
\* the first tab, opened from the read-only link and then reset, is in the
\* background.
C20_ReadFromCache ==
  /\ mounted
  /\ last.op = "mount"
  /\ boot.source = "cache"
  /\ boot.store # <<>>
  /\ ~ state.readonly
  /\ other # NoSession
  /\ other.boot.loc = SharedLink

====
